---- MODULE Spec2Model ----
(***************************************************************************)
(* A model of the semaphore-sms client: SemaphoreClient (client.py), the   *)
(* HttpClient transport adapter (http.py) and the exception classes        *)
(* (exceptions.py).                                                        *)
(*                                                                         *)
(* Python str values are sequences of one-character strings, so that       *)
(* split, join, strip and the regular expression are computed character by *)
(* character.  None is the one-element sequence NoneValue, which is no str *)
(* (its element is not a single character).                                *)
(***************************************************************************)
EXTENDS Integers, Sequences, FiniteSets, TLC

VARIABLES
    pc,            \* "new" (before __init__), "ready" (client exists), "failed" (__init__ raised),
                   \* "phone_in" / "phone_out" (validate_phone_format alone)
    api_key,       \* SemaphoreClient.api_key
    sender_name,   \* SemaphoreClient.sender_name
    _account,      \* SemaphoreClient._account
    os_environ,    \* os.environ, the process environment
    last,          \* the last call: its arguments, what it sent, what came back
    since_read,    \* history: the strongest send/priority/otp call since the last account read
                   \* and the snapshot held when the first dispatched one began
    reads,         \* history: successful account reads since the snapshot was last absent
    fetches,       \* history: network calls those reads issued
    number,        \* validate_phone_format: the argument
    matched,       \* validate_phone_format: whether re.match returned a match
    http_client,   \* the HttpClient: its timeout, an Optional number
    callers,       \* the threads that share the client: where each is in post or in
                   \* account, and what it holds
    vendor         \* the credit balance the vendor holds for the account

vars == <<pc, api_key, sender_name, _account, os_environ, last, since_read,
          reads, fetches, number, matched, http_client, callers, vendor>>

----------------------------------------------------------------------------
(* Bounds of the model *)

MaxRecipients == 2   \* longest recipient list of a call
MaxReads == 3        \* most account reads counted in one cache cycle
MaxPad == 2          \* most characters put around a phone number
MaxCharges == 2      \* most send, priority and otp calls the vendor charges

----------------------------------------------------------------------------
(* Python values *)

NoneValue == <<"None">>

\* truthiness of a str or None: None and '' are falsy
Truthy(v) == v /= NoneValue /\ v /= <<>>

\* x or y
Or(x, y) == IF Truthy(x) THEN x ELSE y

\* the characters str.strip() removes
Whitespace == {" ", "\t", "\n", "\r", "\f"}

\* the characters \d matches in a str pattern: the Unicode decimal digits
AsciiDigits == {"0", "1", "2", "3", "4", "5", "6", "7", "8", "9"}
UnicodeDigits == {"U+0663"}
IsDigit(c) == c \in AsciiDigits \cup UnicodeDigits

RECURSIVE LStrip(_)
LStrip(s) == IF s /= <<>> /\ Head(s) \in Whitespace THEN LStrip(Tail(s)) ELSE s

RECURSIVE RStrip(_)
RStrip(s) ==
    IF s /= <<>> /\ s[Len(s)] \in Whitespace THEN RStrip(SubSeq(s, 1, Len(s) - 1)) ELSE s

\* str.strip()
Strip(s) == RStrip(LStrip(s))

\* str.split(sep) for a one-character sep: the pieces between the separators
RECURSIVE SplitFrom(_, _, _)
SplitFrom(s, sep, piece) ==
    IF s = <<>> THEN <<piece>>
    ELSE IF Head(s) = sep THEN <<piece>> \o SplitFrom(Tail(s), sep, <<>>)
    ELSE SplitFrom(Tail(s), sep, Append(piece, Head(s)))

Split(s, sep) == SplitFrom(s, sep, <<>>)

\* sep.join(pieces)
RECURSIVE Join(_, _)
Join(sep, pieces) ==
    IF pieces = <<>> THEN <<>>
    ELSE IF Len(pieces) = 1 THEN pieces[1]
    ELSE pieces[1] \o sep \o Join(sep, Tail(pieces))

----------------------------------------------------------------------------
(* validate_phone_format: re.match(r'^(\+?639|09)\d{9}$', clean_number) *)

DigitCount == 9

\* the positions after a match of the group (\+?639|09) that starts at position i
GroupEnds(s, i) ==
    {j \in i .. Len(s) + 1 :
        \/ /\ j = i + 4
           /\ SubSeq(s, i, j - 1) = <<"+", "6", "3", "9">>
        \/ /\ j = i + 3
           /\ SubSeq(s, i, j - 1) = <<"6", "3", "9">>
        \/ /\ j = i + 2
           /\ SubSeq(s, i, j - 1) = <<"0", "9">>}

\* \d{9} from position i: the position after it, if the nine characters are there
DigitsEnd(s, i) ==
    IF /\ i + DigitCount - 1 <= Len(s)
       /\ \A k \in i .. i + DigitCount - 1 : IsDigit(s[k])
    THEN {i + DigitCount} ELSE {}

\* $ without MULTILINE: the end of the string, or just before a final newline
AtEnd(s, i) == i = Len(s) + 1 \/ (i = Len(s) /\ s[i] = "\n")

ReMatch(s) == \E j \in GroupEnds(s, 1) : \E k \in DigitsEnd(s, j) : AtEnd(s, k)

\* a slip: the whitespace stripped before the hyphens are removed
CleanNumberStripFirst(n) == Join(<<>>, Split(Strip(n), "-"))

CleanNumber(n) == Strip(Join(<<>>, Split(n, "-")))

validate_phone_format(n) == ReMatch(CleanNumber(n))

----------------------------------------------------------------------------
(* exceptions.py: the classes and their bases *)

\* the base class each class statement names; the transport's exceptions come
\* from the requests library and ValueError from the builtins
\* a slip: the error classes of the API are direct subclasses of SemaphoreException
ParentFlat(kind) ==
    CASE kind \in {"AuthenticationError", "ValidationError", "InvalidPhoneNumberError",
                   "EmptyMessageError", "APIError", "AuthorizationError", "RateLimitError",
                   "ServerError", "NetworkError"} -> "SemaphoreException"
      [] kind \in {"SemaphoreException", "OSError", "ValueError"} -> "Exception"
      [] kind \in {"ConnectionError", "Timeout"} -> "RequestException"
      [] kind = "RequestException" -> "OSError"
      [] OTHER -> "BaseException"

Parent(kind) ==
    CASE kind = "SemaphoreException" -> "Exception"
      [] kind = "AuthenticationError" -> "SemaphoreException"
      [] kind = "ValidationError" -> "SemaphoreException"
      [] kind = "InvalidPhoneNumberError" -> "ValidationError"
      [] kind = "EmptyMessageError" -> "ValidationError"
      [] kind = "APIError" -> "SemaphoreException"
      [] kind = "AuthorizationError" -> "APIError"
      [] kind = "RateLimitError" -> "APIError"
      [] kind = "ServerError" -> "APIError"
      [] kind = "NetworkError" -> "APIError"
      [] kind = "ConnectionError" -> "RequestException"
      [] kind = "Timeout" -> "RequestException"
      [] kind = "RequestException" -> "OSError"
      [] kind = "OSError" -> "Exception"
      [] kind = "ValueError" -> "Exception"
      [] OTHER -> "BaseException"

\* isinstance(an exception of class kind, base)
RECURSIVE IsInstance(_, _)
IsInstance(kind, base) ==
    \/ kind = base
    \/ /\ kind \notin {"Exception", "BaseException"}
       /\ IsInstance(Parent(kind), base)

NoAttrs == [a \in {} |-> 0]

\* SemaphoreException(message): the instance has the attribute message and no other
SemaphoreException(message, args) ==
    [kind |-> "SemaphoreException", message |-> message, args |-> args, attrs |-> NoAttrs]

NoException == [kind |-> "None", message |-> "", args |-> <<>>, attrs |-> NoAttrs]

\* an exception the transport or the builtins raise
Foreign(kind) == [kind |-> kind, message |-> "", args |-> <<>>, attrs |-> NoAttrs]

\* the retry_after argument: None, an int or a str
PyNone == [type |-> "NoneType", int |-> 0, str |-> <<>>]
PyInt(n) == [type |-> "int", int |-> n, str |-> <<>>]
PyStr(chars) == [type |-> "str", int |-> 0, str |-> chars]

\* bool(v)
TruthyValue(v) ==
    CASE v.type = "int" -> v.int /= 0
      [] v.type = "str" -> v.str /= <<>>
      [] OTHER -> FALSE

RECURSIVE IntOfDigits(_)
IntOfDigits(chars) ==
    IF chars = <<>> THEN 0
    ELSE 10 * IntOfDigits(SubSeq(chars, 1, Len(chars) - 1))
         + (CHOOSE d \in 0 .. 9 :
                <<"0", "1", "2", "3", "4", "5", "6", "7", "8", "9">>[d + 1] = chars[Len(chars)])

\* int(v): an int as it is; a str stripped of whitespace and read as decimal
\* digits, ValueError when it is not so made
int(v) ==
    IF v.type = "int" THEN [ok |-> TRUE, value |-> v.int]
    ELSE LET digits == Strip(v.str)
         IN  IF digits /= <<>> /\ \A i \in 1 .. Len(digits) : digits[i] \in AsciiDigits
             THEN [ok |-> TRUE, value |-> IntOfDigits(digits)]
             ELSE [ok |-> FALSE, value |-> 0]

\* RateLimitError(status_code, response_text, retry_after, message): the
\* instance, or the ValueError of int(); an Optional message is the set of at
\* most one message
RateLimitError(status_code, response_text, retry_after, message) ==
    LET given == TruthyValue(retry_after)
        kept == IF given THEN {int(retry_after).value} ELSE {}
    IN  IF given /\ ~int(retry_after).ok
        THEN [ok |-> FALSE, exc |-> Foreign("ValueError")]
        ELSE [ok |-> TRUE,
              exc |-> [kind |-> "RateLimitError",
                       message |-> IF message /= {} THEN CHOOSE m \in message : TRUE
                                   ELSE IF kept /= {} /\ kept /= {0}
                                   THEN "Rate limit exceeded. Retry after {retry_after} seconds"
                                   ELSE "Rate limit exceeded",
                       args |-> IF message = {} /\ kept /= {} /\ kept /= {0}
                                THEN <<CHOOSE n \in kept : TRUE>> ELSE <<>>,
                       attrs |-> [status_code |-> status_code,
                                  response_text |-> response_text,
                                  retry_after |-> kept]]]

----------------------------------------------------------------------------
(* JSON bodies: a mapping or a sequence, as a type and its set of items *)

NoneJson == [type |-> "NoneType", items |-> {}]

JsonDict(items) == [type |-> "dict", items |-> items]
JsonList(items) == [type |-> "list", items |-> items]

\* truthiness of None, a dict or a list
TruthyJson(j) == j.type /= "NoneType" /\ j.items /= {}

\* str(content), the text of a response
Text(content) == [str_of |-> content]

----------------------------------------------------------------------------
(* SemaphoreClient.__init__ *)

APIKEY_VAR == "SEMAPHORE_SMS_APIKEY"
SENDERNAME_VAR == "SEMAPHORE_SMS_SENDERNAME"

\* mapping.get(key)
Get(mapping, key) == IF key \in DOMAIN mapping THEN mapping[key] ELSE NoneValue

\* environment or os.environ; an Optional mapping is the set of at most one mapping
EffectiveEnvironment(environment, os_env) ==
    IF environment /= {} /\ (\E m \in environment : DOMAIN m /= {})
    THEN CHOOSE m \in environment : TRUE
    ELSE os_env

\* a slip: the environment wins over the explicit arguments
ConstructEnvironmentFirst(api_key_arg, sender_name_arg, environment, os_env) ==
    LET env == EffectiveEnvironment(environment, os_env)
        key == Or(Get(env, APIKEY_VAR), api_key_arg)
        name == Or(Get(env, SENDERNAME_VAR), sender_name_arg)
    IN  IF ~Truthy(key)
        THEN [ok |-> FALSE, api_key |-> key, sender_name |-> name,
              exc |-> SemaphoreException(
                         "Credentials are required to create a SemaphoreClient", <<>>)]
        ELSE [ok |-> TRUE, api_key |-> key, sender_name |-> name, exc |-> NoException]

\* the fields __init__ assigns and whether it raises
Construct(api_key_arg, sender_name_arg, environment, os_env) ==
    LET env == EffectiveEnvironment(environment, os_env)
        key == Or(api_key_arg, Get(env, APIKEY_VAR))
        name == Or(sender_name_arg, Get(env, SENDERNAME_VAR))
    IN  IF ~Truthy(key)
        THEN [ok |-> FALSE, api_key |-> key, sender_name |-> name,
              exc |-> SemaphoreException(
                         "Credentials are required to create a SemaphoreClient", <<>>)]
        ELSE [ok |-> TRUE, api_key |-> key, sender_name |-> name, exc |-> NoException]

----------------------------------------------------------------------------
(* http.py: HttpResponse and HttpClient.request *)

\* a slip: only the 2xx statuses are ok
OkOnly2xx(response) == response.status_code >= 200 /\ response.status_code < 300

\* a slip: the 4xx statuses are ok
OkBelow500(response) == response.status_code < 500

\* HttpResponse.ok
Ok(response) == response.status_code < 400

\* method.upper()
Upper(method) ==
    CASE method = "get" -> "GET"
      [] method = "post" -> "POST"
      [] OTHER -> method

\* HttpClient(timeout): the timeout it keeps, or the ValueError it raises
HttpClientInit(timeout_arg) ==
    IF timeout_arg /= {} /\ (\E t \in timeout_arg : t <= 0)
    THEN [ok |-> FALSE, timeout |-> {}, exc |-> Foreign("ValueError")]
    ELSE [ok |-> TRUE, timeout |-> timeout_arg, exc |-> NoException]

\* HttpClient.request up to session.send: the timeout put into effect and the
\* ValueError raised instead when the per-call timeout is zero or negative.  An
\* Optional number is the set of at most one number.
HttpClientRequest(self_timeout, method, url, params, data, timeout, allow_redirects) ==
    LET effective == IF timeout = {} THEN self_timeout ELSE timeout
    IN  IF timeout /= {} /\ (\E t \in timeout : t <= 0)
        THEN [sent |-> FALSE, exc |-> Foreign("ValueError"),
              request |-> [method |-> Upper(method), url |-> url, params |-> params,
                           data |-> data, timeout |-> effective,
                           allow_redirects |-> allow_redirects]]
        ELSE [sent |-> TRUE, exc |-> NoException,
              request |-> [method |-> Upper(method), url |-> url, params |-> params,
                           data |-> data, timeout |-> effective,
                           allow_redirects |-> allow_redirects]]

----------------------------------------------------------------------------
(* client.py: request, get, post *)

BASE_URI == "http://api.semaphore.co/api/v4/"

DefaultTimeout == 10

NoRequest ==
    [method |-> "", url |-> <<>>, params |-> {}, data |-> {}, timeout |-> {},
     allow_redirects |-> FALSE]

\* what session.send gave when it was not called
NoOutcome ==
    [type |-> "none", status_code |-> 0, content |-> NoneJson, retry_after |-> NoneValue,
     exc |-> NoException]

\* session.send returned a response
Response(status_code, content, retry_after) ==
    [type |-> "response", status_code |-> status_code, content |-> content,
     retry_after |-> retry_after, exc |-> NoException]

\* session.send raised: no response was received
TransportFailure(kind) ==
    [type |-> "exception", status_code |-> 0, content |-> NoneJson,
     retry_after |-> NoneValue, exc |-> Foreign(kind)]

\* the result of a client method: what it returned or raised, the network calls it
\* issued, the request it handed to session.send, what session.send gave, and
\* the value it leaves in _account
Raised(exc, calls, request, outcome, account) ==
    [outcome |-> "raise", value |-> NoneJson, exc |-> exc, calls |-> calls,
     request |-> request, response |-> outcome, account |-> account]

Returned(value, request, outcome, account) ==
    [outcome |-> "return", value |-> value, exc |-> NoException, calls |-> 1,
     request |-> request, response |-> outcome, account |-> account]

\* SemaphoreClient.request; self.http_client = HttpClient() has no timeout of its own
Request(method, uri, params, data, outcome, account) ==
    LET url == <<BASE_URI>> \o uri \o <<"/">>
        h == HttpClientRequest({}, method, url, params, data, {DefaultTimeout}, FALSE)
    IN  IF ~h.sent THEN Raised(h.exc, 0, NoRequest, NoOutcome, account)
        ELSE IF outcome.type = "exception"
        THEN Raised(outcome.exc, 1, h.request, outcome, account)
        ELSE IF Ok(outcome)
        THEN Returned(outcome.content, h.request, outcome, account)
        ELSE Raised(
                 SemaphoreException("Request failed: HTTP {status_code} {text}",
                                    <<outcome.status_code, Text(outcome.content)>>),
                 1, h.request, outcome, account)

\* {k: v for k, v in d.items() if v is not None}
DropNone(d) == [k \in {x \in DOMAIN d : d[x] /= NoneValue} |-> d[k]]

\* a slip: get clears _account as post does
ClientGetClearsAccount(self, uri, params, outcome) ==
    LET merged == [apikey |-> self.api_key] @@ params
    IN  Request("get", uri, {DropNone(merged)}, {}, outcome, NoneJson)

\* SemaphoreClient.get: **params first, then apikey
ClientGet(self, uri, params, outcome) ==
    LET merged == [apikey |-> self.api_key] @@ params
    IN  Request("get", uri, {DropNone(merged)}, {}, outcome, self.account)

\* a slip: post does not clear _account
ClientPostKeepsAccount(self, uri, data, outcome) ==
    LET merged == [apikey |-> self.api_key, sendername |-> self.sender_name] @@ data
    IN  Request("post", uri, {}, {DropNone(merged)}, outcome, self.account)

\* SemaphoreClient.post: **data first, then apikey and sendername; _account is
\* cleared before the request is made
ClientPost(self, uri, data, outcome) ==
    LET merged == [apikey |-> self.api_key, sendername |-> self.sender_name] @@ data
    IN  Request("post", uri, {}, {DropNone(merged)}, outcome, NoneJson)

----------------------------------------------------------------------------
(* client.py: the operations *)

BlankMessage == SemaphoreException("Cannot send a blank message", <<>>)

\* the message of the source has backquotes around recipients
InvalidPhone ==
    SemaphoreException("You supplied an invalid Philippine phone number in recipients",
                       <<>>)

\* all([self.validate_phone_format(recipient) for recipient in recipients])
AllValid(recipients) == \A i \in 1 .. Len(recipients) : validate_phone_format(recipients[i])

\* the body of send and of priority, which differ in the uri only
SendTo(self, uri, message, recipients, sender_name_arg, outcome) ==
    LET name == Or(sender_name_arg, self.sender_name)
    IN  IF Strip(message) = <<>>
        THEN Raised(BlankMessage, 0, NoRequest, NoOutcome, self.account)
        ELSE IF ~AllValid(recipients)
        THEN Raised(InvalidPhone, 0, NoRequest, NoOutcome, self.account)
        ELSE ClientPost(self, uri,
                        [message |-> message, sendername |-> name,
                         number |-> Join(<<",">>, recipients)],
                        outcome)

send(self, message, recipients, sender_name_arg, outcome) ==
    SendTo(self, <<"messages">>, message, recipients, sender_name_arg, outcome)

priority(self, message, recipients, sender_name_arg, outcome) ==
    SendTo(self, <<"priority">>, message, recipients, sender_name_arg, outcome)

\* a slip: otp rejects a blank message as send does
otpChecksMessage(self, recipients, message, sender_name_arg, code, outcome) ==
    LET name == Or(sender_name_arg, self.sender_name)
    IN  IF message = NoneValue \/ Strip(message) = <<>>
        THEN Raised(BlankMessage, 0, NoRequest, NoOutcome, self.account)
        ELSE IF ~AllValid(recipients)
        THEN Raised(InvalidPhone, 0, NoRequest, NoOutcome, self.account)
        ELSE ClientPost(self, <<"otp">>,
                        [message |-> message, sendername |-> name,
                         number |-> Join(<<",">>, recipients), code |-> code],
                        outcome)

otp(self, recipients, message, sender_name_arg, code, outcome) ==
    LET name == Or(sender_name_arg, self.sender_name)
    IN  IF ~AllValid(recipients)
        THEN Raised(InvalidPhone, 0, NoRequest, NoOutcome, self.account)
        ELSE ClientPost(self, <<"otp">>,
                        [message |-> message, sendername |-> name,
                         number |-> Join(<<",">>, recipients), code |-> code],
                        outcome)

\* str.lower() on the characters the filters of the model use
LowerChar(c) ==
    CASE c = "G" -> "g"
      [] c = "S" -> "s"
      [] c = "A" -> "a"
      [] OTHER -> c

Lower(str) == [i \in 1 .. Len(str) |-> LowerChar(str[i])]

messages(self, id, page, limit, network, status, start_date, end_date, outcome) ==
    LET uri == IF Truthy(id) THEN <<"messages/">> \o id ELSE <<"messages">>
    IN  ClientGet(self, uri,
                  [page |-> page, limit |-> limit, startDate |-> start_date,
                   endDate |-> end_date,
                   network |-> IF Truthy(network) THEN Lower(network) ELSE NoneValue,
                   status |-> IF Truthy(status) THEN Lower(status) ELSE NoneValue],
                  outcome)

transactions(self, page, limit, outcome) ==
    ClientGet(self, <<"account/transactions">>, [page |-> page, limit |-> limit], outcome)

sender_names(self, page, limit, outcome) ==
    ClientGet(self, <<"account/sendernames">>, [page |-> page, limit |-> limit], outcome)

users(self, page, limit, outcome) ==
    ClientGet(self, <<"account/users">>, [page |-> page, limit |-> limit], outcome)

\* a slip: account keeps the body of the response whatever its status
accountKeepsAnyBody(self, outcome) ==
    IF ~TruthyJson(self.account)
    THEN LET r == ClientGet(self, <<"account">>, NoAttrs, outcome)
         IN  [r EXCEPT !.account = outcome.content]
    ELSE [outcome |-> "return", value |-> self.account, exc |-> NoException, calls |-> 0,
          request |-> NoRequest, response |-> NoOutcome, account |-> self.account]

\* the account property: fetch when _account is falsy, keep what the fetch returned
account(self, outcome) ==
    IF ~TruthyJson(self.account)
    THEN LET r == ClientGet(self, <<"account">>, NoAttrs, outcome)
         IN  IF r.outcome = "return" THEN [r EXCEPT !.account = r.value] ELSE r
    ELSE [outcome |-> "return", value |-> self.account, exc |-> NoException, calls |-> 0,
          request |-> NoRequest, response |-> NoOutcome, account |-> self.account]

----------------------------------------------------------------------------
(* The inputs the operations are called with *)

K_ARG == <<"k", "a">>
K_ENV == <<"k", "e">>
K_OS == <<"k", "o">>
N_ARG == <<"N", "A">>
N_ENV == <<"N", "E">>
N_OS == <<"N", "O">>
N_CALL == <<"M", "E">>

P_LOCAL == <<"0", "9", "1", "7", "1", "2", "3", "4", "5", "6", "7">>
P_HYPHEN == <<"+", "6", "3", "9", "1", "7", "-", "1", "2", "3", "4", "5", "6", "7">>
P_BAD == <<"1", "2", "3">>

Phones == {P_LOCAL, P_HYPHEN, P_BAD}

RecipientLists == UNION {[1 .. n -> Phones] : n \in 0 .. MaxRecipients}

M_EMPTY == <<>>
M_SPACES == <<" ", "\n">>
M_TEXT == <<"h", "i">>

Messages == {M_EMPTY, M_SPACES, M_TEXT}

SenderNameArgs == {NoneValue, N_CALL}

\* otp: the message and the code are optional
OtpArgs ==
    [message : {NoneValue, M_EMPTY, M_SPACES, M_TEXT}, sender_name : SenderNameArgs,
     code : {NoneValue}]
    \cup {[message |-> NoneValue, sender_name |-> NoneValue, code |-> <<"4", "2">>]}

NoFilters ==
    [id |-> NoneValue, page |-> NoneValue, limit |-> NoneValue, network |-> NoneValue,
     status |-> NoneValue, start_date |-> NoneValue, end_date |-> NoneValue]

MessagesArgs ==
    {NoFilters,
     [NoFilters EXCEPT !.id = <<"7">>],
     [NoFilters EXCEPT !.id = <<>>, !.page = <<"2">>],
     [NoFilters EXCEPT !.limit = <<"5">>, !.network = <<"G", "l", "o", "b", "e">>],
     [NoFilters EXCEPT !.status = <<"S", "e", "n", "t">>, !.start_date = <<"d", "1">>],
     [id |-> <<"7">>, page |-> <<"2">>, limit |-> <<"5">>,
      network |-> <<"G", "l", "o", "b", "e">>, status |-> <<"S", "e", "n", "t">>,
      start_date |-> <<"d", "1">>, end_date |-> <<"d", "2">>]}

PageArgs == [page : {NoneValue, <<"2">>}, limit : {NoneValue, <<"5">>}]

\* what the vendor may answer, and the ways the transport may fail
ACCOUNT_999 == JsonDict({<<"credit_balance", 999>>})
ACCOUNT_998 == JsonDict({<<"credit_balance", 998>>})
EMPTY_DICT == JsonDict({})
EMPTY_LIST == JsonList({})
ERROR_BODY == JsonDict({<<"error", 1>>})

SessionOutcomes ==
    {Response(200, c, NoneValue) : c \in {ACCOUNT_999, ACCOUNT_998, EMPTY_DICT, EMPTY_LIST}}
    \cup {Response(st, EMPTY_DICT, NoneValue) : st \in {100, 302}}
    \cup {Response(st, ERROR_BODY, NoneValue) : st \in {400, 401, 403, 404, 500, 599}}
    \cup {Response(429, ERROR_BODY, ra) : ra \in {NoneValue, <<"1", "2", "0">>}}
    \cup {TransportFailure("ConnectionError"), TransportFailure("Timeout")}

\* the inputs of a single call
Wide ==
    [messages |-> Messages,
     recipients |-> RecipientLists,
     sender_names |-> SenderNameArgs,
     otp_args |-> OtpArgs,
     messages_args |-> MessagesArgs,
     page_args |-> PageArgs,
     outcomes |-> SessionOutcomes]

\* the inputs of the calls of a long session
Narrow ==
    [messages |-> {M_SPACES, M_TEXT},
     recipients |-> {rs \in RecipientLists : \A i \in 1 .. Len(rs) : rs[i] /= P_HYPHEN},
     sender_names |-> {NoneValue},
     otp_args |-> {a \in OtpArgs : a.message \in {NoneValue, M_TEXT}
                                    /\ a.sender_name = NoneValue /\ a.code = NoneValue},
     messages_args |-> {NoFilters},
     page_args |-> {a \in PageArgs : a.page = NoneValue /\ a.limit = NoneValue},
     outcomes |-> {Response(200, ACCOUNT_999, NoneValue), Response(200, ACCOUNT_998, NoneValue),
                   Response(200, EMPTY_DICT, NoneValue), Response(500, ERROR_BODY, NoneValue),
                   TransportFailure("ConnectionError")}]

\* the environments a process may run in and a caller may pass
MappingsOver(key_values, name_values) ==
    UNION {[d -> key_values \cup name_values] : d \in SUBSET {APIKEY_VAR, SENDERNAME_VAR}}

EnvMappings ==
    {m \in MappingsOver({<<>>, K_ENV}, {N_ENV}) :
        /\ APIKEY_VAR \in DOMAIN m => m[APIKEY_VAR] \in {<<>>, K_ENV}
        /\ SENDERNAME_VAR \in DOMAIN m => m[SENDERNAME_VAR] = N_ENV}

OsEnvirons ==
    {m \in MappingsOver({K_OS}, {N_OS}) :
        /\ APIKEY_VAR \in DOMAIN m => m[APIKEY_VAR] = K_OS
        /\ SENDERNAME_VAR \in DOMAIN m => m[SENDERNAME_VAR] = N_OS}

EmptyEnviron == [k \in {} |-> <<>>]

EnvironmentArgs == {{}} \cup {{m} : m \in EnvMappings}

ApiKeyArgs == {NoneValue, <<>>, K_ARG}
SenderArgs == {NoneValue, <<>>, N_ARG}

----------------------------------------------------------------------------
(* The state machine *)

Self == [api_key |-> api_key, sender_name |-> sender_name, account |-> _account]

NoWrite == [call |-> "none", snapshot |-> NoneJson]

NoCall ==
    [op |-> "none", args |-> <<>>, outcome |-> "none", value |-> NoneJson,
     exc |-> NoException, calls |-> 0, request |-> NoRequest, response |-> NoOutcome,
     pre_account |-> NoneJson, pre_since |-> NoWrite]

\* the call just made, with the state it was made in
Called(op, args, r) ==
    [op |-> op, args |-> args, outcome |-> r.outcome, value |-> r.value, exc |-> r.exc,
     calls |-> r.calls, request |-> r.request, response |-> r.response,
     pre_account |-> _account, pre_since |-> since_read]

PhoneIdle == /\ number = <<>>
             /\ matched = FALSE

\* the threads that call the client
Callers == {"t1", "t2"}

\* the balance of the account when the session begins
CREDIT_BALANCE == 999

\* a thread that is in no call.  History of its last call: quiet, no other
\* thread was inside a call when it began; began_at, the balance the vendor held
\* then; overlap, some call so far began while another was under way
IdleCaller ==
    [pc |-> "idle", op |-> "none", step |-> 0, cleared |-> FALSE, sent |-> FALSE,
     failed |-> FALSE, result |-> NoneJson, value |-> NoneJson,
     quiet |-> TRUE, began_at |-> CREDIT_BALANCE, overlap |-> FALSE]

\* one thread at a time, each call whole: no thread is inside a call
OneAtATime ==
    /\ callers = [c \in Callers |-> IdleCaller]
    /\ vendor = CREDIT_BALANCE

\* self.http_client = HttpClient(): no timeout of its own
DefaultHttpClient == http_client = [timeout |-> {}, log |-> <<>>]

\* session.send answers only when it is called
OutcomesIf(sends, outcomes) == IF sends THEN outcomes ELSE {NoOutcome}

\* a slip: the call stores its sender_name argument on the client
MutatingStoresSenderName(op, args, r) ==
    /\ pc = "ready"
    /\ last' = Called(op, args, r)
    /\ _account' = r.account
    /\ sender_name' = args.sender_name
    /\ since_read' =
           IF r.request /= NoRequest
           THEN [call |-> "dispatched",
                 snapshot |-> IF since_read.call = "dispatched" THEN since_read.snapshot
                              ELSE _account]
           ELSE IF since_read.call = "none" THEN [since_read EXCEPT !.call = "rejected"]
           ELSE since_read
    /\ reads' = IF r.request /= NoRequest THEN 0 ELSE reads
    /\ fetches' = IF r.request /= NoRequest THEN 0 ELSE fetches
    /\ UNCHANGED <<pc, api_key, os_environ, number, matched>>
    /\ UNCHANGED <<http_client, callers, vendor>>

\* a send, priority or otp call: r.request is NoRequest when validation rejected it
Mutating(op, args, r) ==
    /\ pc = "ready"
    /\ last' = Called(op, args, r)
    /\ _account' = r.account
    /\ since_read' =
           IF r.request /= NoRequest
           THEN [call |-> "dispatched",
                 snapshot |-> IF since_read.call = "dispatched" THEN since_read.snapshot
                              ELSE _account]
           ELSE IF since_read.call = "none" THEN [since_read EXCEPT !.call = "rejected"]
           ELSE since_read
    /\ reads' = IF r.request /= NoRequest THEN 0 ELSE reads
    /\ fetches' = IF r.request /= NoRequest THEN 0 ELSE fetches
    /\ UNCHANGED <<pc, api_key, sender_name, os_environ, number, matched>>
    /\ UNCHANGED <<http_client, callers, vendor>>

\* a messages, transactions, sender_names or users call
Reading(op, args, r) ==
    /\ pc = "ready"
    /\ last' = Called(op, args, r)
    /\ _account' = r.account
    /\ UNCHANGED <<pc, api_key, sender_name, os_environ, since_read, reads, fetches,
                   number, matched, http_client, callers, vendor>>

SendWith(in) ==
    \E m \in in.messages, rs \in in.recipients, sn \in in.sender_names :
        \E o \in OutcomesIf(send(Self, m, rs, sn, NoOutcome).request /= NoRequest,
                            in.outcomes) :
            Mutating("send", [message |-> m, recipients |-> rs, sender_name |-> sn],
                     send(Self, m, rs, sn, o))

PriorityWith(in) ==
    \E m \in in.messages, rs \in in.recipients, sn \in in.sender_names :
        \E o \in OutcomesIf(priority(Self, m, rs, sn, NoOutcome).request /= NoRequest,
                            in.outcomes) :
            Mutating("priority", [message |-> m, recipients |-> rs, sender_name |-> sn],
                     priority(Self, m, rs, sn, o))

OtpWith(in) ==
    \E a \in in.otp_args, rs \in in.recipients :
        \E o \in OutcomesIf(
                    otp(Self, rs, a.message, a.sender_name, a.code, NoOutcome).request
                        /= NoRequest,
                    in.outcomes) :
            Mutating("otp",
                     [message |-> a.message, recipients |-> rs,
                      sender_name |-> a.sender_name, code |-> a.code],
                     otp(Self, rs, a.message, a.sender_name, a.code, o))

MessagesWith(in) ==
    \E a \in in.messages_args, o \in in.outcomes :
        Reading("messages", a,
                messages(Self, a.id, a.page, a.limit, a.network, a.status, a.start_date,
                         a.end_date, o))

TransactionsWith(in) ==
    \E a \in in.page_args, o \in in.outcomes :
        Reading("transactions", a, transactions(Self, a.page, a.limit, o))

SenderNamesWith(in) ==
    \E a \in in.page_args, o \in in.outcomes :
        Reading("sender_names", a, sender_names(Self, a.page, a.limit, o))

UsersWith(in) ==
    \E a \in in.page_args, o \in in.outcomes :
        Reading("users", a, users(Self, a.page, a.limit, o))

AccountWith(in) ==
    /\ pc = "ready"
    /\ reads < MaxReads
    /\ \E o \in OutcomesIf(account(Self, NoOutcome).calls = 1, in.outcomes) :
        LET r == account(Self, o)
        IN  /\ last' = Called("account", <<>>, r)
            /\ _account' = r.account
            /\ reads' = IF r.outcome = "return" THEN reads + 1 ELSE 0
            /\ fetches' = IF r.outcome = "return" THEN fetches + r.calls ELSE 0
    /\ since_read' = NoWrite
    /\ UNCHANGED <<pc, api_key, sender_name, os_environ, number, matched>>
    /\ UNCHANGED <<http_client, callers, vendor>>

\* a new client: SemaphoreClient(api_key=K_ARG, sender_name=sn)
NewClient(sender_name_args) ==
    /\ pc = "ready"
    /\ os_environ = EmptyEnviron
    /\ \E sn \in sender_name_args :
        LET c == Construct(K_ARG, sn, {}, os_environ)
        IN  /\ c.ok
            /\ api_key = c.api_key
            /\ sender_name = c.sender_name
    /\ last = NoCall
    /\ since_read = NoWrite
    /\ PhoneIdle
    /\ DefaultHttpClient
    /\ OneAtATime

(* A session: any sequence of calls on one client *)

Send == SendWith(Narrow)
Priority == PriorityWith(Narrow)
Otp == OtpWith(Narrow)
GetMessages == MessagesWith(Narrow)
Transactions == TransactionsWith(Narrow)
SenderNames == SenderNamesWith(Narrow)
Users == UsersWith(Narrow)
Account == AccountWith(Narrow)

Init ==
    /\ NewClient({N_ARG})
    /\ _account = NoneJson
    /\ reads = 0
    /\ fetches = 0

Next ==
    \/ Send
    \/ Priority
    \/ Otp
    \/ GetMessages
    \/ Transactions
    \/ SenderNames
    \/ Users
    \/ Account

Spec == Init /\ [][Next]_vars

(* One call, with every input, on a client that has or has not read its account *)

FirstCall == last = NoCall

CallSend == FirstCall /\ SendWith(Wide)
CallPriority == FirstCall /\ PriorityWith(Wide)
CallOtp == FirstCall /\ OtpWith(Wide)
CallMessages == FirstCall /\ MessagesWith(Wide)
CallTransactions == FirstCall /\ TransactionsWith(Wide)
CallSenderNames == FirstCall /\ SenderNamesWith(Wide)
CallUsers == FirstCall /\ UsersWith(Wide)
CallAccount == FirstCall /\ AccountWith(Wide)

InitCall ==
    /\ NewClient({NoneValue, N_ARG})
    /\ \/ /\ _account = NoneJson
          /\ reads = 0
          /\ fetches = 0
       \/ /\ _account = ACCOUNT_999
          /\ reads = 1
          /\ fetches = 1

NextCall ==
    \/ CallSend
    \/ CallPriority
    \/ CallOtp
    \/ CallMessages
    \/ CallTransactions
    \/ CallSenderNames
    \/ CallUsers
    \/ CallAccount

SpecCall == InitCall /\ [][NextCall]_vars

----------------------------------------------------------------------------
(* Construction alone: SemaphoreClient(api_key, sender_name, environment) *)

InitNew ==
    /\ pc = "new"
    /\ os_environ \in OsEnvirons
    /\ api_key = NoneValue
    /\ sender_name = NoneValue
    /\ _account = NoneJson
    /\ last = NoCall
    /\ since_read = NoWrite
    /\ reads = 0
    /\ fetches = 0
    /\ PhoneIdle
    /\ DefaultHttpClient
    /\ OneAtATime

ConstructClient ==
    /\ pc = "new"
    /\ \E k \in ApiKeyArgs, sn \in SenderArgs, e \in EnvironmentArgs :
        LET c == Construct(k, sn, e, os_environ)
        IN  /\ pc' = IF c.ok THEN "ready" ELSE "failed"
            /\ api_key' = IF c.ok THEN c.api_key ELSE NoneValue
            /\ sender_name' = IF c.ok THEN c.sender_name ELSE NoneValue
            /\ last' = [NoCall EXCEPT !.op = "__init__",
                                      !.args = [api_key |-> k, sender_name |-> sn,
                                                environment |-> e],
                                      !.outcome = IF c.ok THEN "return" ELSE "raise",
                                      !.exc = c.exc]
    /\ _account' = NoneJson
    /\ UNCHANGED <<os_environ, since_read, reads, fetches, number, matched,
                   http_client, callers, vendor>>

SpecConstruct == InitNew /\ [][ConstructClient]_vars

----------------------------------------------------------------------------
(* validate_phone_format alone *)

PadChars == {" ", "-", "\n"}

Pads == UNION {[1 .. n -> PadChars] : n \in 0 .. MaxPad}

Prefixes ==
    {<<>>, <<"0", "9">>, <<"6", "3", "9">>, <<"+", "6", "3", "9">>, <<"0", "8">>,
     <<"+", "0", "9">>, <<"+", "+", "6", "3", "9">>}

OddChars == {"a", " ", "-", "U+0663"}

\* n times the digit 1, and the same with the first or the last character replaced
Bodies(n) ==
    LET ones == [i \in 1 .. n |-> "1"]
    IN  {ones} \cup {[ones EXCEPT ![i] = c] : i \in {1, n}, c \in OddChars}

PhoneInputs ==
    {l \o p \o b \o r :
        l \in Pads, r \in Pads, p \in Prefixes,
        b \in UNION {Bodies(n) : n \in DigitCount - 1 .. DigitCount + 1}}

InitPhone ==
    /\ pc = "phone_in"
    /\ number \in PhoneInputs
    /\ matched = FALSE
    /\ os_environ = EmptyEnviron
    /\ api_key = NoneValue
    /\ sender_name = NoneValue
    /\ _account = NoneJson
    /\ last = NoCall
    /\ since_read = NoWrite
    /\ reads = 0
    /\ fetches = 0
    /\ DefaultHttpClient
    /\ OneAtATime

ValidatePhone ==
    /\ pc = "phone_in"
    /\ pc' = "phone_out"
    /\ matched' = validate_phone_format(number)
    /\ UNCHANGED <<api_key, sender_name, _account, os_environ, last, since_read, reads,
                   fetches, number, http_client, callers, vendor>>

SpecPhone == InitPhone /\ [][ValidatePhone]_vars

----------------------------------------------------------------------------
(* The HttpClient alone: HttpClient(timeout), client.timeout = t, client.request *)

\* None, and the numbers the tests pass: 0, a negative one, two positive ones
TimeoutArgs == {{}, {0}, {-1}, {5}, {30}}

HttpMethods == {"get", "post"}

HttpOutcomes ==
    {Response(200, EMPTY_DICT, NoneValue), Response(429, ERROR_BODY, <<"1", "2", "0">>),
     TransportFailure("Timeout")}

\* the query of a GET as the client builds it, the body of a POST, and headers
HttpParams == {{}, {[apikey |-> K_ARG]}, {[apikey |-> K_ARG, page |-> <<"2", " ">>]}}

HttpData == {{}, {[apikey |-> K_ARG, message |-> M_TEXT]}}

AUTHORIZATION_HEADER == <<"A", "u", "t", "h", "o", "r", "i", "z", "a", "t", "i", "o", "n">>
ACCEPT_HEADER == <<"A", "c", "c", "e", "p", "t">>
SECRET == <<"s", "3">>
ANY_TYPE == <<"*", "/", "*">>

HttpHeaders ==
    {{}, {AUTHORIZATION_HEADER :> SECRET},
     {(AUTHORIZATION_HEADER :> SECRET) @@ (ACCEPT_HEADER :> ANY_TYPE)}}

\* needle in hay, for two str
IsSubSeq(needle, hay) ==
    \E i \in 1 .. Len(hay) - Len(needle) + 1 :
        SubSeq(hay, i, i + Len(needle) - 1) = needle

\* the keys of a dict, in the order of iteration
Keys(d) ==
    CHOOSE q \in [1 .. Cardinality(DOMAIN d) -> DOMAIN d] :
        \A k \in DOMAIN d : \E i \in DOMAIN q : q[i] = k

\* quote_plus on letters, digits and the space
QuotePlus(str) == [i \in 1 .. Len(str) |-> IF str[i] = " " THEN "+" ELSE str[i]]

\* urlencode(params): key=value pairs joined by &
urlencode(d) ==
    Join(<<"&">>, [i \in 1 .. Cardinality(DOMAIN d) |->
                      <<Keys(d)[i], "=">> \o QuotePlus(d[Keys(d)[i]])])

\* str(d) for a dict of str
StrOfDict(d) ==
    <<"{">>
    \o Join(<<", ">>, [i \in 1 .. Cardinality(DOMAIN d) |->
                          <<"'", Keys(d)[i], "': '">> \o d[Keys(d)[i]] \o <<"'">>])
    \o <<"}">>

\* the header lines log_request writes: every header whose name does not hold
\* authorization
HeaderLines(hd) ==
    LET shown == SelectSeq(Keys(hd), LAMBDA k : ~IsSubSeq(Lower(AUTHORIZATION_HEADER), Lower(k)))
    IN  [i \in 1 .. Len(shown) |-> shown[i] \o <<" : ">> \o hd[shown[i]]]

\* HttpClient.log_request: the records it writes, each the text of one record
log_request(kwargs) ==
    <<<<"Sending request to Semaphore SMS Gateway API...">>>>
    \o (IF kwargs.params /= {} /\ (\E d \in kwargs.params : DOMAIN d /= {})
        THEN LET d == CHOOSE x \in kwargs.params : TRUE
             IN  <<<<kwargs.method, " Request: ">> \o kwargs.url \o <<"?">> \o urlencode(d),
                   <<"Query Params: ">> \o StrOfDict(d)>>
        ELSE <<<<kwargs.method, " Request: ">> \o kwargs.url>>)
    \o (IF kwargs.headers /= {} /\ (\E hd \in kwargs.headers : DOMAIN hd /= {})
        THEN <<<<"Headers:">>>> \o HeaderLines(CHOOSE hd \in kwargs.headers : TRUE)
        ELSE <<>>)

\* HttpClient.log_response
log_response(status_code, response) ==
    <<<<"Response status code: ", ToString(status_code)>>,
      <<"Response headers: ">>
      \o (IF response.retry_after = NoneValue THEN <<"{}">>
          ELSE <<"{'Retry-After': '">> \o response.retry_after \o <<"'}">>)>>

InitHttp ==
    /\ pc = "http_new"
    /\ DefaultHttpClient
    /\ os_environ = EmptyEnviron
    /\ api_key = NoneValue
    /\ sender_name = NoneValue
    /\ _account = NoneJson
    /\ last = NoCall
    /\ since_read = NoWrite
    /\ reads = 0
    /\ fetches = 0
    /\ PhoneIdle
    /\ OneAtATime

HttpIdle ==
    UNCHANGED <<api_key, sender_name, _account, os_environ, since_read, reads, fetches,
                number, matched, callers, vendor>>

HttpConstruct ==
    /\ pc = "http_new"
    /\ \E t \in TimeoutArgs :
        LET c == HttpClientInit(t)
        IN  /\ pc' = IF c.ok THEN "http_ready" ELSE "http_failed"
            /\ http_client' = [http_client EXCEPT !.timeout = c.timeout]
            /\ last' = [NoCall EXCEPT !.op = "HttpClient",
                                      !.args = [timeout |-> t],
                                      !.outcome = IF c.ok THEN "return" ELSE "raise",
                                      !.exc = c.exc]
    /\ HttpIdle

\* client.timeout = t
HttpSetTimeout ==
    /\ pc = "http_ready"
    /\ \E t \in TimeoutArgs : http_client' = [http_client EXCEPT !.timeout = t]
    /\ UNCHANGED <<pc, last>>
    /\ HttpIdle

\* one request, with every input, on a client whose timeout was or was not set
HttpRequest ==
    /\ pc = "http_ready"
    /\ last.op /= "HttpClient.request"
    /\ \E m \in HttpMethods, t \in TimeoutArgs, ps \in HttpParams, d \in HttpData,
          hs \in HttpHeaders :
        LET url == <<BASE_URI, "messages", "/">>
            h == HttpClientRequest(http_client.timeout, m, url, ps, d, t, FALSE)
            kwargs == [method |-> Upper(m), url |-> url, params |-> ps, headers |-> hs]
        IN  \E o \in OutcomesIf(h.sent, HttpOutcomes) :
                /\ last' = [NoCall EXCEPT
                                !.op = "HttpClient.request",
                                !.args = [method |-> m, timeout |-> t,
                                          self_timeout |-> http_client.timeout,
                                          params |-> ps, data |-> d, headers |-> hs],
                                !.outcome = IF h.sent /\ o.type = "response" THEN "return"
                                            ELSE "raise",
                                !.exc = IF h.sent THEN o.exc ELSE h.exc,
                                !.calls = IF h.sent THEN 1 ELSE 0,
                                !.request = IF h.sent THEN h.request ELSE NoRequest,
                                !.response = o]
                /\ http_client' =
                       [http_client EXCEPT
                           !.log = IF ~h.sent THEN <<>>
                                   ELSE IF o.type = "response"
                                   THEN log_request(kwargs) \o log_response(o.status_code, o)
                                   ELSE log_request(kwargs)]
    /\ UNCHANGED pc
    /\ HttpIdle

NextHttp ==
    \/ HttpConstruct
    \/ HttpSetTimeout
    \/ HttpRequest

SpecHttp == InitHttp /\ [][NextHttp]_vars

----------------------------------------------------------------------------
(* Two threads on one client, statement by statement: post and account *)

\* a slip: post does not clear the snapshot
PostStepsNoClear == <<"request">>

\* a slip: post clears the snapshot once the request is back
PostStepsRequestFirst == <<"request", "clear_account">>

\* the statements of post that touch shared state, in program order
PostSteps == <<"clear_account", "request">>

\* what the vendor answers GET account/ with
Balance(credits) == JsonDict({<<"credit_balance", credits>>})

InPost == {c \in Callers : callers[c].pc = "post"}

\* thread c begins a call
Begin(c) ==
    LET busy == \E o \in Callers \ {c} : callers[o].pc /= "idle"
    IN  [IdleCaller EXCEPT !.quiet = ~busy,
                           !.began_at = vendor,
                           !.overlap = busy \/ (\E o \in Callers : callers[o].overlap)]

StepIdle ==
    UNCHANGED <<pc, api_key, sender_name, os_environ, last, since_read, reads, fetches,
                number, matched, http_client>>

\* a thread calls send, priority or otp with a message and recipients that pass
\* validation, and so enters post
EnterPost ==
    /\ pc = "ready"
    /\ vendor - Cardinality(InPost) > CREDIT_BALANCE - MaxCharges
    /\ \E c \in Callers, op \in {"send", "priority", "otp"} :
        /\ callers[c].pc = "idle"
        /\ callers' = [callers EXCEPT ![c] = [Begin(c) EXCEPT !.pc = "post", !.op = op,
                                                                !.step = 1]]
    /\ UNCHANGED <<_account, vendor>>
    /\ StepIdle

\* the next statement of post: the clear of the snapshot, or the request, which
\* the vendor accepts and charges or which fails and ends the call
PostStep ==
    /\ \E c \in Callers :
        LET me == callers[c]
            stmt == PostSteps[me.step]
            at_end == me.step = Len(PostSteps)
            next == IF at_end THEN [me EXCEPT !.pc = "idle", !.step = 0]
                    ELSE [me EXCEPT !.step = me.step + 1]
        IN  /\ me.pc = "post"
            /\ \/ /\ stmt = "clear_account"
                  /\ _account' = NoneJson
                  /\ callers' = [callers EXCEPT ![c] = [next EXCEPT !.cleared = TRUE]]
                  /\ UNCHANGED vendor
               \/ /\ stmt = "request"
                  /\ \/ /\ vendor' = vendor - 1
                        /\ callers' = [callers EXCEPT ![c] = [next EXCEPT !.sent = TRUE]]
                     \/ /\ callers' = [callers EXCEPT
                                          ![c] = [me EXCEPT !.pc = "idle", !.step = 0,
                                                            !.sent = TRUE, !.failed = TRUE]]
                        /\ UNCHANGED vendor
                  /\ UNCHANGED _account
    /\ StepIdle

\* a thread reads account: the test of the snapshot
AccountCheck ==
    /\ pc = "ready"
    /\ \E c \in Callers :
        /\ callers[c].pc = "idle"
        /\ callers' = [callers EXCEPT
                          ![c] = [Begin(c) EXCEPT
                                     !.op = "account",
                                     !.pc = IF TruthyJson(_account) THEN "account_return"
                                            ELSE "account_get"]]
    /\ UNCHANGED <<_account, vendor>>
    /\ StepIdle

\* self.get('account'): the vendor answers with the balance it holds now, or the
\* request fails and ends the call
AccountGet ==
    /\ \E c \in Callers :
        /\ callers[c].pc = "account_get"
        /\ \/ callers' = [callers EXCEPT ![c].pc = "account_store",
                                          ![c].sent = TRUE,
                                          ![c].result = Balance(vendor)]
           \/ callers' = [callers EXCEPT ![c].pc = "idle", ![c].sent = TRUE,
                                          ![c].failed = TRUE]
    /\ UNCHANGED <<_account, vendor>>
    /\ StepIdle

\* self._account = what the get returned
AccountStore ==
    /\ \E c \in Callers :
        /\ callers[c].pc = "account_store"
        /\ _account' = callers[c].result
        /\ callers' = [callers EXCEPT ![c].pc = "account_return"]
    /\ UNCHANGED vendor
    /\ StepIdle

\* return self._account
AccountReturn ==
    /\ \E c \in Callers :
        /\ callers[c].pc = "account_return"
        /\ callers' = [callers EXCEPT ![c].pc = "idle", ![c].value = _account]
    /\ UNCHANGED <<_account, vendor>>
    /\ StepIdle

NextSteps ==
    \/ EnterPost
    \/ PostStep
    \/ AccountCheck
    \/ AccountGet
    \/ AccountStore
    \/ AccountReturn

SpecSteps == Init /\ [][NextSteps]_vars

----------------------------------------------------------------------------
(* The exception classes alone: try: raise K(...) except B: pass *)

\* the classes exceptions.py exports
ErrorClasses ==
    {"SemaphoreException", "AuthenticationError", "ValidationError",
     "InvalidPhoneNumberError", "EmptyMessageError", "APIError", "AuthorizationError",
     "RateLimitError", "ServerError", "NetworkError"}

\* the classes an except clause names
ExceptClasses == ErrorClasses \cup {"Exception", "ValueError"}

\* the message an instance gets when the caller passes none
DefaultMessage(kind) ==
    CASE kind = "SemaphoreException" -> "An error occurred with the Semaphore API"
      [] kind = "AuthenticationError" -> "Credentials are required to create a SemaphoreClient"
      [] kind = "ValidationError" -> "Validation error"
      [] kind = "InvalidPhoneNumberError" ->
             "You supplied an invalid Philippine phone number in recipients"
      [] kind = "EmptyMessageError" -> "Cannot send a blank message"
      [] kind = "APIError" -> "Request failed: HTTP {status_code} {response_text}"
      [] kind = "AuthorizationError" -> "Authorization failed: HTTP {status_code}"
      [] kind = "RateLimitError" -> "Rate limit exceeded"
      [] kind = "ServerError" -> "Server error: HTTP {status_code}"
      [] kind = "NetworkError" -> "Network error occurred"

InitRaise ==
    /\ pc = "try"
    /\ os_environ = EmptyEnviron
    /\ api_key = NoneValue
    /\ sender_name = NoneValue
    /\ _account = NoneJson
    /\ last = NoCall
    /\ since_read = NoWrite
    /\ reads = 0
    /\ fetches = 0
    /\ PhoneIdle
    /\ DefaultHttpClient
    /\ OneAtATime

\* raise k(...) under except b: the clause catches an instance of b, anything
\* else leaves the try statement
RaiseAndCatch ==
    /\ pc = "try"
    /\ \E k \in ErrorClasses, b \in ExceptClasses :
        /\ pc' = IF IsInstance(k, b) THEN "caught" ELSE "escaped"
        /\ last' = [NoCall EXCEPT
                        !.op = "raise",
                        !.args = [except |-> b],
                        !.outcome = IF IsInstance(k, b) THEN "return" ELSE "raise",
                        !.exc = [kind |-> k, message |-> DefaultMessage(k),
                                 args |-> <<>>, attrs |-> NoAttrs]]
    /\ UNCHANGED <<api_key, sender_name, _account, os_environ, since_read, reads, fetches,
                   number, matched, http_client, callers, vendor>>

SpecRaise == InitRaise /\ [][RaiseAndCatch]_vars

----------------------------------------------------------------------------
(* RateLimitError alone: RateLimitError(status_code, response_text, retry_after, message) *)

RetryAfterArgs ==
    {PyNone, PyInt(0), PyInt(60), PyInt(120),
     PyStr(<<>>), PyStr(<<"0">>), PyStr(<<"6", "0">>), PyStr(<<"1", "2", "0">>),
     PyStr(<<" ", "7", "\n">>), PyStr(<<"s", "o", "o", "n">>)}

StatusArgs == {429, 503}

ResponseTexts == {<<>>, <<"s", "l", "o", "w">>, <<"{", "}">>}

MessageArgs == {{}, {"Slow down"}}

InitRateLimit ==
    /\ pc = "rate_limit_new"
    /\ os_environ = EmptyEnviron
    /\ api_key = NoneValue
    /\ sender_name = NoneValue
    /\ _account = NoneJson
    /\ last = NoCall
    /\ since_read = NoWrite
    /\ reads = 0
    /\ fetches = 0
    /\ PhoneIdle
    /\ DefaultHttpClient
    /\ OneAtATime

ConstructRateLimitError ==
    /\ pc = "rate_limit_new"
    /\ \E st \in StatusArgs, text \in ResponseTexts, ra \in RetryAfterArgs,
          m \in MessageArgs :
        LET e == RateLimitError(st, text, ra, m)
        IN  /\ pc' = IF e.ok THEN "rate_limit_made" ELSE "rate_limit_failed"
            /\ last' = [NoCall EXCEPT
                            !.op = "RateLimitError",
                            !.args = [status_code |-> st, response_text |-> text,
                                      retry_after |-> ra, message |-> m],
                            !.outcome = IF e.ok THEN "return" ELSE "raise",
                            !.exc = e.exc]
    /\ UNCHANGED <<api_key, sender_name, _account, os_environ, since_read, reads, fetches,
                   number, matched, http_client, callers, vendor>>

SpecRateLimit == InitRateLimit /\ [][ConstructRateLimitError]_vars

----------------------------------------------------------------------------
(* The claims *)

IsMutatingOp(op) == op \in {"send", "priority", "otp"}

C2_OneFetchPerCycle == reads >= 1 => fetches = 1

\* C3, as claimed: a send, priority or otp call with a recipient that fails the
\* phone-format check raises InvalidPhoneNumberError, which carries the whole
\* recipient list, and issues no network call.
C3_InvalidPhoneNumberError ==
    (IsMutatingOp(last.op) /\ ~AllValid(last.args.recipients))
        => /\ last.outcome = "raise"
           /\ last.calls = 0
           /\ IsInstance(last.exc.kind, "InvalidPhoneNumberError")
           /\ "recipients" \in DOMAIN last.exc.attrs
           /\ last.exc.attrs["recipients"] = last.args.recipients

\* the message is '' or whitespace only
IsBlank(message) == \A i \in 1 .. Len(message) : message[i] \in Whitespace

\* C4, as claimed: a send or priority call with an empty or whitespace-only
\* message raises EmptyMessageError and issues no network call.
C4_EmptyMessageError ==
    (last.op \in {"send", "priority"} /\ IsBlank(last.args.message))
        => /\ last.outcome = "raise"
           /\ last.calls = 0
           /\ IsInstance(last.exc.kind, "EmptyMessageError")

\* the number without its hyphens
Unhyphenated(n) == SelectSeq(n, LAMBDA c : c /= "-")

\* s from its first to its last character that is not whitespace
Trimmed(s) ==
    LET solid == {i \in 1 .. Len(s) : s[i] \notin Whitespace}
    IN  IF solid = {} THEN <<>>
        ELSE SubSeq(s, CHOOSE i \in solid : \A j \in solid : i <= j,
                       CHOOSE i \in solid : \A j \in solid : j <= i)

\* s is the given prefix and then nine digits, and nothing else
PrefixAndNineDigits(s, prefix) ==
    /\ Len(s) = Len(prefix) + 9
    /\ \A i \in 1 .. Len(prefix) : s[i] = prefix[i]
    /\ \A i \in Len(prefix) + 1 .. Len(s) : IsDigit(s[i])

PhoneFormat(n) ==
    LET s == Trimmed(Unhyphenated(n))
    IN  \/ PrefixAndNineDigits(s, <<"0", "9">>)
        \/ PrefixAndNineDigits(s, <<"6", "3", "9">>)
        \/ PrefixAndNineDigits(s, <<"+", "6", "3", "9">>)

\* C5: validate_phone_format accepts a number if and only if the number, with
\* every hyphen removed and then the whitespace at its ends stripped, is 09 and
\* nine digits, or 639 and nine digits with or without a + before it.
C5_PhoneFormat == pc = "phone_out" => (matched <=> PhoneFormat(number))

\* C5 witness: a number is accepted that has a hyphen before its leading
\* whitespace, and so is accepted only because the hyphens go first.
C5_Witness ==
    /\ pc = "phone_out"
    /\ matched
    /\ Len(number) >= 2
    /\ number[1] = "-"
    /\ number[2] \in Whitespace

\* the mapping the caller means: the one passed, or the process environment
MappingOf(environment) ==
    IF environment = {} THEN os_environ ELSE CHOOSE m \in environment : TRUE

\* C6, as claimed: when neither the api_key argument nor the environment
\* mapping holds a non-empty API key, __init__ raises AuthenticationError and
\* leaves no client.
C6_AuthenticationError ==
    (/\ last.op = "__init__"
     /\ ~Truthy(last.args.api_key)
     /\ ~Truthy(Get(MappingOf(last.args.environment), APIKEY_VAR)))
        => /\ pc = "failed"
           /\ last.outcome = "raise"
           /\ IsInstance(last.exc.kind, "AuthenticationError")

\* the environment __init__ reads: the mapping passed, or the process
\* environment when none or an empty one is passed
Consulted == EffectiveEnvironment(last.args.environment, os_environ)

KindOfStatus(status_code) ==
    IF status_code \in {401, 403} THEN "AuthorizationError"
    ELSE IF status_code >= 500 /\ status_code <= 599 THEN "ServerError"
    ELSE "APIError"

\* C8, as claimed: a response with a status of 400 or more other than 429 makes
\* the method raise AuthorizationError (401, 403), ServerError (500 to 599) or
\* APIError (the rest), which carries the status code and the response text.
C8_ErrorKindOfStatus ==
    (/\ last.response.type = "response"
     /\ last.response.status_code >= 400
     /\ last.response.status_code /= 429)
        => /\ last.outcome = "raise"
           /\ last.exc.kind = KindOfStatus(last.response.status_code)
           /\ "status_code" \in DOMAIN last.exc.attrs
           /\ last.exc.attrs["status_code"] = last.response.status_code
           /\ "response_text" \in DOMAIN last.exc.attrs
           /\ last.exc.attrs["response_text"] = Text(last.response.content)

DigitValue(c) == CHOOSE d \in 0 .. 9 : <<"0", "1", "2", "3", "4", "5", "6", "7", "8", "9">>[d + 1] = c

\* int(s) for a str of ASCII digits
RECURSIVE ParseInt(_)
ParseInt(str) ==
    IF str = <<>> THEN 0
    ELSE 10 * ParseInt(SubSeq(str, 1, Len(str) - 1)) + DigitValue(str[Len(str)])

\* C9, as claimed: a response with status 429 makes the method raise
\* RateLimitError, whose retry_after is the integer the vendor supplied, or is
\* absent when the vendor supplied none.
C9_RateLimitError ==
    (last.response.type = "response" /\ last.response.status_code = 429)
        => /\ last.outcome = "raise"
           /\ last.exc.kind = "RateLimitError"
           /\ "retry_after" \in DOMAIN last.exc.attrs
           /\ last.exc.attrs["retry_after"] =
                  IF last.response.retry_after = NoneValue THEN {}
                  ELSE {ParseInt(last.response.retry_after)}

\* C10, as claimed: when the transport fails before a response is received,
\* the method raises NetworkError, whose original_exception is the exception
\* of the transport.
C10_NetworkError ==
    last.response.type = "exception"
        => /\ last.outcome = "raise"
           /\ last.exc.kind = "NetworkError"
           /\ "original_exception" \in DOMAIN last.exc.attrs
           /\ last.exc.attrs["original_exception"] = last.response.exc

\* session.send was called and gave a response
GotResponse == last.calls = 1 /\ last.response.type = "response"

\* C11: a response with a status below 400 makes the method return the JSON
\* body of the response as it is, and raise nothing.
C11_ReturnsJsonBelow400 ==
    (GotResponse /\ last.response.status_code < 400)
        => /\ last.outcome = "return"
           /\ last.exc = NoException
           /\ last.value = last.response.content

\* C11 witness: a 302 response, not followed, whose body a method returned.
C11_Witness ==
    /\ GotResponse
    /\ last.response.status_code = 302
    /\ last.outcome = "return"
    /\ last.value = EMPTY_DICT

\* C12, as claimed: a response with a status outside 200 to 299 never makes a
\* method return a value.
C12_RaisesOutside2xx ==
    (GotResponse /\ (last.response.status_code < 200 \/ last.response.status_code > 299))
        => last.outcome = "raise"

\* C12, amended: a response with a status of 400 or more never makes a method
\* return a value, the method raises; a response with a 1xx or 3xx status makes
\* it return the body.
C12_RaisesFrom400 ==
    GotResponse
        => /\ last.response.status_code >= 400
                  => (last.outcome = "raise" /\ last.value = NoneJson)
           /\ (last.response.status_code < 200
               \/ (last.response.status_code > 299 /\ last.response.status_code < 400))
                  => last.outcome = "return"

\* C12 witness: a 404 response, and the method raised.
C12_Witness ==
    /\ GotResponse
    /\ last.response.status_code = 404
    /\ last.outcome = "raise"

\* C13, as claimed: every exception a client operation raises is a
\* SemaphoreException.
C13_OnlySemaphoreExceptions ==
    last.outcome = "raise" => IsInstance(last.exc.kind, "SemaphoreException")

\* the names of the optional arguments of a GET operation that are not None,
\* as the parameters they are sent as
ParamOfArg(name) ==
    CASE name = "start_date" -> "startDate"
      [] name = "end_date" -> "endDate"
      [] OTHER -> name

GivenParams(args) ==
    {ParamOfArg(a) : a \in {x \in DOMAIN args \ {"id"} : args[x] /= NoneValue}}

\* the fields a send, priority or otp call is to transmit beside apikey: the
\* recipients, and each optional value that is not None, the sender name being
\* the one of the call or else the one of the client
GivenFields(args) ==
    {"number"}
    \cup {a \in DOMAIN args \ {"recipients", "sender_name"} : args[a] /= NoneValue}
    \cup (IF args.sender_name /= NoneValue \/ sender_name /= NoneValue
          THEN {"sendername"} ELSE {})

\* the parameter set a call handed to the transport: the query of a GET, the
\* body of a POST
Transmitted ==
    CHOOSE d \in last.request.params \cup last.request.data : TRUE

\* C14, as claimed: the parameter set a call transmits holds the API key of the
\* client, each optional parameter whose value is not None, no other
\* parameter, and no None.
C14_TransmitsGivenParameters ==
    (last.calls = 1 /\ last.op /= "account" /\ last.op /= "none")
        => /\ "apikey" \in DOMAIN Transmitted
           /\ Transmitted["apikey"] = api_key
           /\ \A k \in DOMAIN Transmitted : Transmitted[k] /= NoneValue
           /\ DOMAIN Transmitted =
                  {"apikey"} \cup (IF IsMutatingOp(last.op) THEN GivenFields(last.args)
                                   ELSE GivenParams(last.args))

\* C15, as claimed: the sendername a send, priority or otp call transmits is
\* the sender_name of the call when one is passed, and the one of the client
\* when none is.
C15_SenderNameOfCall ==
    (IsMutatingOp(last.op) /\ last.calls = 1)
        => IF last.args.sender_name /= NoneValue
           THEN /\ "sendername" \in DOMAIN Transmitted
                /\ Transmitted["sendername"] = last.args.sender_name
           ELSE sender_name /= NoneValue
                    => /\ "sendername" \in DOMAIN Transmitted
                       /\ Transmitted["sendername"] = sender_name

\* C16: an otp call with valid recipients and a message that is None, empty or
\* whitespace only is dispatched: one POST otp/ goes out and no blank-message
\* error is raised.
C16_OtpTakesBlankMessage ==
    (/\ last.op = "otp"
     /\ AllValid(last.args.recipients)
     /\ (last.args.message = NoneValue \/ IsBlank(last.args.message)))
        => /\ last.calls = 1
           /\ last.request.method = "POST"
           /\ last.request.url = <<BASE_URI, "otp", "/">>
           /\ last.exc /= BlankMessage

\* C16 witness: an otp call with a whitespace-only message went out and
\* returned.
C16_Witness ==
    /\ last.op = "otp"
    /\ last.args.message = M_SPACES
    /\ last.args.recipients = <<P_LOCAL>>
    /\ last.calls = 1
    /\ last.outcome = "return"

\* C18, as claimed: HttpClient.request sends nothing and raises ValueError when
\* the timeout in effect, the one of the call or else the one of the instance,
\* is zero or negative.
C18_NoSendWithoutTimeout ==
    last.op = "HttpClient.request"
        => LET effective == IF last.args.timeout = {} THEN last.args.self_timeout
                            ELSE last.args.timeout
           IN  (\E t \in effective : t <= 0)
                   => /\ last.calls = 0
                      /\ last.outcome = "raise"
                      /\ last.exc.kind = "ValueError"

\* the classes the claim says an error of each kind is an instance of
ClaimedBases(kind) ==
    {kind, "SemaphoreException"}
    \cup (IF kind \in {"InvalidPhoneNumberError", "EmptyMessageError"}
          THEN {"ValidationError"} ELSE {})
    \cup (IF kind \in {"AuthorizationError", "RateLimitError", "ServerError", "NetworkError"}
          THEN {"APIError"} ELSE {})

\* C20: an error raised under an except clause that names an error class is
\* caught exactly when the claimed hierarchy puts it under that class:
\* AuthenticationError, ValidationError and APIError under SemaphoreException,
\* InvalidPhoneNumberError and EmptyMessageError under ValidationError,
\* AuthorizationError, RateLimitError, ServerError and NetworkError under
\* APIError; so except SemaphoreException catches every one.
C20_Hierarchy ==
    (last.op = "raise" /\ last.args.except \in ErrorClasses)
        => /\ (pc = "caught") <=> (last.args.except \in ClaimedBases(last.exc.kind))
           /\ last.args.except = "SemaphoreException" => pc = "caught"

\* C20 witness: a NetworkError was raised and except APIError caught it.
C20_Witness ==
    /\ last.op = "raise"
    /\ last.exc.kind = "NetworkError"
    /\ last.args.except = "APIError"
    /\ pc = "caught"

\* the method and the path the claim gives each operation
ClaimedMethod(op) == IF IsMutatingOp(op) THEN "POST" ELSE "GET"

ClaimedPath(op, args) ==
    CASE op = "send" -> <<"messages">>
      [] op = "priority" -> <<"priority">>
      [] op = "otp" -> <<"otp">>
      [] op = "transactions" -> <<"account/transactions">>
      [] op = "sender_names" -> <<"account/sendernames">>
      [] op = "users" -> <<"account/users">>
      [] op = "account" -> <<"account">>
      [] op = "messages" -> IF args.id /= NoneValue THEN <<"messages/">> \o args.id
                            ELSE <<"messages">>

\* C19, as claimed: each operation sends its request with the method and the
\* URL of the vendor, base, path and a trailing slash; messages goes to
\* messages/{id}/ whenever an id is passed and to messages/ only when none is.
C19_MethodAndUrl ==
    (last.calls = 1 /\ last.op /= "none")
        => /\ last.request.method = ClaimedMethod(last.op)
           /\ last.request.url = <<BASE_URI>> \o ClaimedPath(last.op, last.args) \o <<"/">>

\* C17, as claimed: a send, priority or otp call clears the snapshot only once
\* its request has been dispatched.
C17_ClearedAfterDispatch ==
    \A c \in Callers :
        (IsMutatingOp(callers[c].op) /\ callers[c].cleared) => callers[c].sent

\* C17, amended: a send, priority or otp call whose request has been dispatched
\* has cleared the snapshot already, the clear being the statement before the
\* request; the snapshot is cleared whether the request succeeds or fails.
C17_ClearedBeforeDispatch ==
    \A c \in Callers :
        /\ (IsMutatingOp(callers[c].op) /\ callers[c].sent) => callers[c].cleared
        /\ (callers[c].pc = "post" /\ PostSteps[callers[c].step] = "request")
               => callers[c].cleared

\* C17 witness: a call whose request failed, the snapshot cleared all the same.
C17_Witness ==
    \E c \in Callers :
        /\ IsMutatingOp(callers[c].op)
        /\ callers[c].pc = "idle"
        /\ callers[c].failed
        /\ callers[c].sent
        /\ callers[c].cleared

\* C21: in every state of a session on a constructed client, whatever calls
\* were made and however they ended, api_key is the non-empty string that
\* construction resolved and sender_name is the one construction resolved.
C21_CredentialsKept ==
    LET c == Construct(K_ARG, N_ARG, {}, os_environ)
    IN  pc = "ready"
            => /\ api_key = c.api_key
               /\ api_key /= NoneValue
               /\ Len(api_key) > 0
               /\ sender_name = c.sender_name

\* C21 witness: a second dispatched send, priority or otp call has failed, and the
\* client holds the credentials it was constructed with.
C21_Witness ==
    /\ IsMutatingOp(last.op)
    /\ last.pre_since.call = "dispatched"
    /\ last.calls = 1
    /\ last.outcome = "raise"
    /\ api_key = K_ARG
    /\ sender_name = N_ARG

\* an account read of thread c has returned
HasRead(c) ==
    /\ callers[c].op = "account"
    /\ callers[c].pc = "idle"
    /\ ~callers[c].failed

\* C22: as long as no call began while another was under way, every account
\* read returns the balance the vendor held when the read was issued; the
\* stale read of the witness takes two calls that overlap.
C22_FreshWhenSerialized ==
    (\A c \in Callers : ~callers[c].overlap)
        => \A c \in Callers : HasRead(c) => callers[c].value = Balance(callers[c].began_at)

\* C22 witness: an account read issued while no other call was under way, every
\* send, priority and otp call having returned, took no fetch and returned a
\* balance above the one the vendor held when it was issued: a snapshot
\* fetched before the request of a send took effect.
C22_Witness ==
    \E c \in Callers :
        /\ HasRead(c)
        /\ callers[c].quiet
        /\ ~callers[c].sent
        /\ \E credits \in callers[c].began_at + 1 .. CREDIT_BALANCE :
               callers[c].value = Balance(credits)

\* an int, or a str of decimal digits
IsNumeric(v) ==
    \/ v.type = "int"
    \/ v.type = "str" /\ v.str /= <<>> /\ \A i \in 1 .. Len(v.str) : v.str[i] \in AsciiDigits

\* C23, as claimed: the retry_after of a RateLimitError is int(v) for every
\* integer or numeric string v passed as retry_after, 0 and '0' included, and is
\* None only when no retry_after is passed.
C23_RetryAfterIsInt ==
    (last.op = "RateLimitError" /\ last.outcome = "return")
        => LET v == last.args.retry_after
               kept == last.exc.attrs["retry_after"]
           IN  /\ IsNumeric(v)
                      => kept = {IF v.type = "int" THEN v.int ELSE ParseInt(v.str)}
               /\ kept = {} => v = PyNone

\* C24, as claimed: when an environment mapping is passed to __init__, empty or
\* not, the credentials come from the arguments and that mapping alone; the
\* process environment is read only when no mapping is passed.
C24_MappingPassedIsTheOneRead ==
    last.op = "__init__"
        => LET m == MappingOf(last.args.environment)
               key == Or(last.args.api_key, Get(m, APIKEY_VAR))
               name == Or(last.args.sender_name, Get(m, SENDERNAME_VAR))
           IN  IF Truthy(key)
               THEN pc = "ready" /\ api_key = key /\ sender_name = name
               ELSE pc = "failed"

\* C25, as claimed: every POST of send, priority and otp has a number field
\* that names at least one recipient, each one of the valid format; a call with
\* no recipient sends nothing and leaves the snapshot as it was.
C25_AtLeastOneRecipient ==
    IsMutatingOp(last.op)
        => /\ last.calls = 1
                  => /\ "number" \in DOMAIN Transmitted
                     /\ Transmitted["number"] = Join(<<",">>, last.args.recipients)
                     /\ Len(last.args.recipients) >= 1
                     /\ \A i \in 1 .. Len(last.args.recipients) :
                            PhoneFormat(last.args.recipients[i])
           /\ last.args.recipients = <<>>
                  => (last.calls = 0 /\ _account = last.pre_account)

\* C26: a call changes the snapshot in two cases only: a send, priority or otp
\* call that passed validation leaves it cleared, and an account read whose
\* fetch returned leaves it set to what the fetch returned.  messages,
\* transactions, sender_names and users, an account read served from the
\* snapshot, and a send, priority or otp call that validation rejected leave it
\* as it was.
C26_SnapshotFrame ==
    /\ _account /= last.pre_account
           => \/ IsMutatingOp(last.op) /\ last.request /= NoRequest /\ _account = NoneJson
              \/ /\ last.op = "account"
                 /\ last.calls = 1
                 /\ last.outcome = "return"
                 /\ _account = last.value
    /\ last.op \in {"messages", "transactions", "sender_names", "users"}
           => _account = last.pre_account
    /\ (last.op = "account" /\ last.calls = 0) => _account = last.pre_account
    /\ (IsMutatingOp(last.op) /\ last.request = NoRequest) => _account = last.pre_account
    /\ (IsMutatingOp(last.op) /\ last.request /= NoRequest) => _account = NoneJson
    /\ (last.op = "account" /\ last.calls = 1 /\ last.outcome = "return")
           => _account = last.response.content

\* C26 witness: a messages call made while a snapshot was held returned, and
\* the snapshot is the one held before.
C26_Witness ==
    /\ last.op = "messages"
    /\ last.outcome = "return"
    /\ last.pre_account = ACCOUNT_999
    /\ _account = ACCOUNT_999

\* the exchange of the last call failed: a status of 400 or more, or an
\* exception of the transport
ExchangeFailed ==
    /\ last.calls = 1
    /\ \/ last.response.type = "exception"
       \/ last.response.type = "response" /\ last.response.status_code >= 400

\* the account read that comes next issues a network call
NextReadFetches == \A o \in Narrow.outcomes : account(Self, o).calls = 1

\* C27: after a send, priority or otp call whose exchange failed the snapshot
\* is None; after an account read whose fetch failed the snapshot is what it
\* was, which account takes as absent, and nothing of the failed response is
\* kept; in both cases the call raised and the next account read fetches.
C27_NoSnapshotAfterFailure ==
    /\ (IsMutatingOp(last.op) /\ ExchangeFailed)
           => /\ last.outcome = "raise"
              /\ _account = NoneJson
              /\ NextReadFetches
    /\ (last.op = "account" /\ ExchangeFailed)
           => /\ last.outcome = "raise"
              /\ _account = last.pre_account
              /\ ~TruthyJson(_account)
              /\ NextReadFetches

\* C27 witness: a send made while a snapshot was held got a 500 answer, and the
\* snapshot is gone.
C27_Witness ==
    /\ last.op = "send"
    /\ last.pre_account = ACCOUNT_999
    /\ last.response.type = "response"
    /\ last.response.status_code = 500
    /\ last.outcome = "raise"
    /\ _account = NoneJson

\* C28, as claimed: no record HttpClient logs for a request holds the API key
\* the request carries, in its query or in its body, or the value of an
\* authorization header.
C28_NoSecretInLog ==
    last.op = "HttpClient.request"
        => \A i \in 1 .. Len(http_client.log) :
               /\ \A d \in last.args.params \cup last.args.data :
                      "apikey" \in DOMAIN d => ~IsSubSeq(d["apikey"], http_client.log[i])
               /\ \A hd \in last.args.headers : \A k \in DOMAIN hd :
                      IsSubSeq(Lower(AUTHORIZATION_HEADER), Lower(k))
                          => ~IsSubSeq(hd[k], http_client.log[i])

====
